---- MODULE Spec2Model ----
(***************************************************************************)
(* Proposal lifecycle of the bug-fixer agent: the in-memory proposal store *)
(* of BugFixerAgent, the HTTP routes that call it, and the approve         *)
(* pipeline (prepare repository, branch, apply changes, lint/build/test,   *)
(* pull request, issue comment, notification).  Every await of the source  *)
(* is a suspension point: one action of the model runs the code from one   *)
(* await to the next, so calls interleave exactly where the event loop     *)
(* lets them.  The requests in flight are a bag: a request has no identity *)
(* beyond the await it is suspended at and its locals.                     *)
(***************************************************************************)
EXTENDS Integers, Sequences, FiniteSets, Bags, TLC

\* ---------------------------------------------------------------- bounds
MaxProposals == 2      \* proposal ids the model generator can hand out
MaxCalls == 2          \* HTTP requests in flight at the same time
StartedCap == 2        \* the pipeline counter saturates here
MaxRequests == 4       \* HTTP requests received in one run
MaxChanges == 2        \* code changes of the proposal that is applied
MaxText == 2           \* characters of a file of the working tree
MaxOriginal == 1       \* characters of an originalCode
MaxNew == 2            \* characters of a newCode
MaxIssues == 3         \* issues returned by one getIssues
MaxCandidates == 16    \* candidate files named by identifyRelevantFiles
MaxMentions == 2       \* file references matched in an issue
MaxPhrases == 2        \* phrases in the output of a command
MaxPipelines == 1      \* approve calls in flight at the same time (FairSpec)

Ids == 1..MaxProposals
NoId == 0

VARIABLES
  proposals,   \* BugFixerAgent.proposals: the ids held by the Map
  status,      \* FixProposal.status of every proposal object ever created
  effects,     \* branch, tree writes, commits, push and PR made for a proposal
  workingDir,  \* config.workingDir exists on disk
  started,     \* number of apply pipelines started for a proposal
  call,        \* bag of the requests in flight: the await and the locals of each
  res,         \* the HTTP response that the last step sent, if it sent one
  requests,    \* number of requests received so far
  apply,       \* one run of applyChanges on file contents (ApplySpec)
  llm,         \* one run of LLMService.analyzeIssue on a response (LLMSpec)
  scan,        \* one run of scanAndAnalyze (ScanSpec)
  ctx,         \* one run of gatherRepositoryContext (ContextSpec)
  found,       \* one run of identifyRelevantFiles (FilesSpec)
  runner       \* one run of a validation stage of TestRunnerService (RunnerSpec)

vars ==
  <<proposals, status, effects, workingDir, started, call, res, requests,
    apply, llm, scan, ctx, found, runner>>

\* the state of the agent and its routes
agent ==
  <<proposals, status, effects, workingDir, started, call, res, requests>>

\* a run that was not started
NoRun == [pc |-> "off"]

Statuses == {"pending", "approved", "rejected", "applied"}
Effects == {"branch", "write", "commit", "push", "pr"}

\* pcs at which an approve call is between the start of prepareRepository
\* and the end of validation
PipelinePcs == {"access", "pull", "mkdir", "clone", "defaultBranch",
                "fallbackMain", "createBranch", "applyRead", "applyWrite",
                "applyCommit", "push", "lint", "build", "test"}

\* the locals of a handler that has just been entered
NewCall ==
  [op |-> "none", id |-> NoId, pc |-> "entry", seen |-> "none",
   lint |-> "none", build |-> "none", test |-> "none",
   ret |-> "none", pr |-> FALSE, err |-> "none", reason |-> "none"]

Note(kind, url, success, delivered) ==
  [kind |-> kind, prUrl |-> url, success |-> success, delivered |-> delivered]

NoNote == Note("none", "", FALSE, FALSE)

\* the reasons a no-fix result of the generator can carry
Reasons == {"feature request", "low confidence"}

\* sendNoFixEmail(issue, repositoryUrl, reason): the notice and its reason
NoFixNote(reason, delivered) ==
  [kind |-> "nofix", prUrl |-> "", success |-> FALSE, delivered |-> delivered,
   reason |-> reason]

\* sendValidationEmail: the link is validationUrl/api/validate/<id>/<action>
\* and has no query string
approveUrl(id) == [proposalId |-> id, action |-> "approve", query |-> {}]

rejectUrl(id) == [proposalId |-> id, action |-> "reject", query |-> {}]

\* sendValidationEmail(proposal, repositoryUrl): the mail and its two links
ValidationNote(id, delivered) ==
  [kind |-> "validate", prUrl |-> "", success |-> FALSE,
   delivered |-> delivered, approveUrl |-> approveUrl(id),
   rejectUrl |-> rejectUrl(id)]

\* the input check of the approve and reject routes:
\* req.body.repo || req.query.repo
repositoryUrl(bodyRepo, query) == bodyRepo \/ "repo" \in query

NoRes ==
  [op |-> "none", id |-> NoId, http |-> 0, result |-> "none", pr |-> FALSE,
   note |-> NoNote]

\* the requests in flight
Calls == BagToSet(call)

\* one more request can be received
Free ==
  /\ BagCardinality(call) < MaxCalls
  /\ requests < MaxRequests

InitAgent ==
  /\ proposals = {}
  /\ status = [i \in Ids |-> "none"]
  /\ effects = [i \in Ids |-> {}]
  /\ workingDir = FALSE
  /\ started = [i \in Ids |-> 0]
  /\ call = EmptyBag
  /\ res = NoRes
  /\ requests = 0

Init ==
  /\ InitAgent
  /\ apply = NoRun /\ llm = NoRun /\ scan = NoRun
  /\ ctx = NoRun /\ found = NoRun /\ runner = NoRun

\* ------------------------------------------------------------- helpers
One(r) == SetToBag({r})

\* a handler is entered and suspends at its first await with locals r
Enter(r) ==
  /\ call' = call (+) One(r)
  /\ res' = NoRes

\* generateProposalId: an id no proposal has had before
generateProposalId == CHOOSE i \in Ids : status[i] = "none" /\ \A j \in Ids : status[j] = "none" => i <= j

\* a request that is answered before its handler ever awaits
Answer(op, id, http, result) ==
  /\ res' = [NoRes EXCEPT !.op = op, !.id = id, !.http = http,
                          !.result = result]
  /\ UNCHANGED call

\* the handler of call c ends: the route sends its response
Finish(c, http, result, note) ==
  /\ res' = [op |-> c.op, id |-> c.id, http |-> http,
             result |-> result, pr |-> c.pr, note |-> note]
  /\ call' = call (-) One(c)

\* call c goes on to its next await; no response is sent
Go(c, r) ==
  /\ call' = (call (-) One(c)) (+) One(r)
  /\ res' = NoRes

\* ------------------------------------------------- POST /analyze
\* the route up to its first await: input check, then github.getIssue
analyzeRoute(validUrl) ==
  /\ Free
  /\ requests' = requests + 1
  /\ IF validUrl
       THEN Enter([NewCall EXCEPT !.op = "analyze", !.pc = "analyzing"])
       ELSE Answer("analyze", NoId, 400, "BadRequest")
  /\ UNCHANGED <<proposals, status, effects, workingDir, started>>

\* The awaits of github.getIssue, gatherRepositoryContext and
\* llm.analyzeIssue are one step: none of them reads or writes the agent.
\* getIssue may throw (the route answers 500); the other two never throw.
\* Without a fix the no-fix mail is awaited; with one the proposal is stored
\* and the validation mail is awaited.
analyzeSingleIssue(c, issueOk, shouldFix, reason) ==
  /\ c \in Calls /\ c.pc = "analyzing"
  /\ IF ~issueOk
       THEN /\ Finish(c, 500, "TrackerError", NoNote)
            /\ UNCHANGED <<proposals, status>>
       ELSE IF shouldFix
         THEN /\ \E i \in Ids : status[i] = "none"
              /\ LET id == generateProposalId IN
                   /\ status' = [status EXCEPT ![id] = "pending"]
                   /\ proposals' = proposals \cup {id}
                   /\ Go(c, [c EXCEPT !.pc = "validationMail",
                                            !.id = id])
         ELSE /\ Go(c, [c EXCEPT !.pc = "noFixMail", !.reason = reason])
              /\ UNCHANGED <<proposals, status>>
  /\ UNCHANGED <<effects, workingDir, started, requests>>

\* EmailService.sendNoFixEmail rethrows a transport failure
sendNoFixEmailThrows(delivered) == ~delivered

sendNoFixEmail(c, delivered) ==
  /\ c \in Calls /\ c.pc = "noFixMail"
  /\ IF sendNoFixEmailThrows(delivered)
       THEN Finish(c, 500, "MailError", NoFixNote(c.reason, delivered))
       ELSE Finish(c, 200, "null", NoFixNote(c.reason, delivered))
  /\ UNCHANGED <<proposals, status, effects, workingDir, started,
                 requests>>

\* EmailService.sendValidationEmail rethrows a transport failure
sendValidationEmailThrows(delivered) == ~delivered

sendValidationEmail(c, delivered) ==
  /\ c \in Calls /\ c.pc = "validationMail"
  /\ IF sendValidationEmailThrows(delivered)
       THEN Finish(c, 500, "MailError", ValidationNote(c.id, delivered))
       ELSE Finish(c, 200, "proposal", ValidationNote(c.id, delivered))
  /\ UNCHANGED <<proposals, status, effects, workingDir, started,
                 requests>>

\* ------------------------------------------- POST /validate/:id/reject
\* a rejectProposal that keeps the proposal in the Map
deleteProposalKeeps(id) == proposals

\* this.proposals.delete(proposalId)
deleteProposal(id) == proposals \ {id}

\* rejectProposal has no await: route and call are one step
rejectProposal(id, hasRepo) ==
  /\ requests < MaxRequests
  /\ requests' = requests + 1
  /\ IF ~hasRepo
       THEN /\ Answer("reject", NoId, 400, "BadRequest")
            /\ UNCHANGED <<proposals, status>>
       ELSE IF id \notin proposals
         THEN /\ Answer("reject", id, 500, "NotFound")
              /\ UNCHANGED <<proposals, status>>
         ELSE /\ status' = [status EXCEPT ![id] = "rejected"]
              /\ proposals' = deleteProposal(id)
              /\ Answer("reject", id, 200, "ok")
  /\ UNCHANGED <<effects, workingDir, started>>

\* ------------------------------------------ POST /validate/:id/approve
\* Guard with a status test that only refuses finished proposals
GuardApprovedToo(id) ==
  IF id \notin proposals THEN "NotFound"
  ELSE IF status[id] \in {"applied", "rejected"} THEN "InvalidState"
  ELSE "ok"

\* Guard without the status test
GuardNoStatus(id) ==
  IF id \notin proposals THEN "NotFound" ELSE "ok"

\* the guard of approveProposal: what the two checks answer for an id
Guard(id) ==
  IF id \notin proposals THEN "NotFound"
  ELSE IF status[id] # "pending" THEN "InvalidState"
  ELSE "ok"

\* The route and approveProposal up to the first await (fs.access in
\* prepareRepository): input check, guard, status = 'approved'.
approveProposal(id, hasRepo) ==
  /\ Free
  /\ requests' = requests + 1
  /\ IF ~hasRepo
       THEN /\ Answer("approve", NoId, 400, "BadRequest")
            /\ UNCHANGED <<status, started>>
       ELSE IF Guard(id) # "ok"
         THEN /\ Answer("approve", id, 500, Guard(id))
              /\ UNCHANGED <<status, started>>
         ELSE /\ status' = [status EXCEPT ![id] = "approved"]
              /\ started' = [started EXCEPT
                               ![id] = IF @ < StartedCap THEN @ + 1 ELSE @]
              /\ Enter([NewCall EXCEPT !.op = "approve", !.id = id,
                                     !.seen = status[id], !.pc = "access"])
  /\ UNCHANGED <<proposals, effects, workingDir>>

\* a catch block that leaves the status as it is
ThrowKeepsStatus(c, e) ==
  /\ UNCHANGED status
  /\ Go(c, [c EXCEPT !.pc = "catchMail", !.err = e])

\* the catch block of approveProposal up to its await: the proposal object
\* is marked rejected and sendConfirmationEmail(proposal, '', false) starts
Throw(c, e) ==
  /\ status' = [status EXCEPT ![c.id] = "rejected"]
  /\ Go(c, [c EXCEPT !.pc = "catchMail", !.err = e])

\* prepareRepository: fs.access resolves when the directory exists and
\* rejects otherwise; the catch of prepareRepository then creates it
prepareAccess(c) ==
  /\ c \in Calls /\ c.pc = "access"
  /\ Go(c, [c EXCEPT !.pc = IF workingDir THEN "pull" ELSE "mkdir"])
  /\ UNCHANGED <<proposals, status, effects, workingDir, started,
                 requests>>

\* a prepareRepository that resets the working tree
gitPullResets(e) == [i \in Ids |-> e[i] \ {"write", "commit"}]

\* what 'git pull' in the working tree does to the files written and the
\* commits made there by earlier approve calls: they stay
gitPull(e) == e

\* prepareRepository: git pull; a failure lands in the same catch
preparePull(c, ok) ==
  /\ c \in Calls /\ c.pc = "pull"
  /\ Go(c, [c EXCEPT !.pc = IF ok THEN "defaultBranch" ELSE "mkdir"])
  /\ effects' = gitPull(effects)
  /\ UNCHANGED <<proposals, status, workingDir, started, requests>>

\* prepareRepository, catch block: fs.mkdir(workingDir, recursive)
prepareMkdir(c, ok) ==
  /\ c \in Calls /\ c.pc = "mkdir"
  /\ IF ok
       THEN /\ workingDir' = TRUE
            /\ Go(c, [c EXCEPT !.pc = "clone"])
            /\ UNCHANGED status
       ELSE /\ Throw(c, "prepareRepository")
            /\ UNCHANGED workingDir
  /\ UNCHANGED <<proposals, effects, started, requests>>

\* prepareRepository, catch block: git clone
prepareClone(c, ok) ==
  /\ c \in Calls /\ c.pc = "clone"
  /\ IF ok
       THEN /\ Go(c, [c EXCEPT !.pc = "defaultBranch"])
            /\ UNCHANGED status
       ELSE Throw(c, "prepareRepository")
  /\ UNCHANGED <<proposals, effects, workingDir, started,
                 requests>>

\* github.getDefaultBranch: the repository lookup returned or threw; a
\* failed lookup is caught inside getDefaultBranch
getDefaultBranch(c, ok) ==
  /\ c \in Calls /\ c.pc = "defaultBranch"
  /\ Go(c, [c EXCEPT !.pc = IF ok THEN "createBranch"
                                        ELSE "fallbackMain"])
  /\ UNCHANGED <<proposals, status, effects, workingDir, started,
                 requests>>

\* github.getDefaultBranch, catch block: 'main' is returned and
\* approveProposal goes on with it
getDefaultBranchFallback(c) ==
  /\ c \in Calls /\ c.pc = "fallbackMain"
  /\ Go(c, [c EXCEPT !.pc = "createBranch"])
  /\ UNCHANGED <<proposals, status, effects, workingDir, started,
                 requests>>

\* github.createBranch; applyChanges then starts with the first change, or
\* with the push when the proposal has no change (more: codeChanges holds a
\* change)
createBranch(c, ok, more) ==
  /\ c \in Calls /\ c.pc = "createBranch"
  /\ IF ok
       THEN /\ effects' = [effects EXCEPT ![c.id] = @ \cup {"branch"}]
            /\ Go(c, [c EXCEPT
                 !.pc = IF more THEN "applyRead" ELSE "push"])
            /\ UNCHANGED status
       ELSE /\ Throw(c, "createBranch")
            /\ UNCHANGED effects
  /\ UNCHANGED <<proposals, workingDir, started, requests>>

\* applyChanges, one change: mkdir of the parent, then for a non-empty
\* originalCode the read and the includes test
applyRead(c, outcome) ==
  /\ c \in Calls /\ c.pc = "applyRead"
  /\ outcome \in {"found", "notFound", "ioError"}
  /\ IF outcome = "found"
       THEN /\ Go(c, [c EXCEPT !.pc = "applyWrite"])
            /\ UNCHANGED status
       ELSE Throw(c, IF outcome = "notFound" THEN "OriginalCodeNotFound"
                                             ELSE "applyChanges")
  /\ UNCHANGED <<proposals, effects, workingDir, started,
                 requests>>

\* applyChanges, one change: fs.writeFile
applyWrite(c, ok) ==
  /\ c \in Calls /\ c.pc = "applyWrite"
  /\ IF ok
       THEN /\ effects' = [effects EXCEPT ![c.id] = @ \cup {"write"}]
            /\ Go(c, [c EXCEPT !.pc = "applyCommit"])
            /\ UNCHANGED status
       ELSE /\ Throw(c, "applyChanges")
            /\ UNCHANGED effects
  /\ UNCHANGED <<proposals, workingDir, started, requests>>

\* applyChanges, one change: git add and git commit, then the next change
\* (more: codeChanges holds a further change)
applyCommit(c, ok, more) ==
  /\ c \in Calls /\ c.pc = "applyCommit"
  /\ IF ok
       THEN /\ effects' = [effects EXCEPT ![c.id] = @ \cup {"commit"}]
            /\ Go(c, [c EXCEPT
                 !.pc = IF more THEN "applyRead" ELSE "push"])
            /\ UNCHANGED status
       ELSE /\ Throw(c, "applyChanges")
            /\ UNCHANGED effects
  /\ UNCHANGED <<proposals, workingDir, started, requests>>

\* applyChanges: git push origin <branch>; runTests then starts with lint
push(c, ok) ==
  /\ c \in Calls /\ c.pc = "push"
  /\ IF ok
       THEN /\ effects' = [effects EXCEPT ![c.id] = @ \cup {"push"}]
            /\ Go(c, [c EXCEPT !.pc = "lint"])
            /\ UNCHANGED status
       ELSE /\ Throw(c, "applyChanges")
            /\ UNCHANGED effects
  /\ UNCHANGED <<proposals, workingDir, started, requests>>

\* ---------------------------------------------------- validation gate
\* TestRunnerService.runLint: passed unless the detected command rejects
\* (non-zero exit or timeout)
runLintPassed(detected, exitZero) == ~detected \/ exitZero

\* TestRunnerService.runBuild: as runLint
runBuildPassed(detected, exitZero) == ~detected \/ exitZero

\* TestRunnerService.hasTestFailures: some failure pattern matches
hasTestFailures(marker) == marker

\* TestRunnerService.runTests: a zero exit is also scanned for markers
runTestsPassed(detected, exitZero, marker) ==
  ~detected \/ (exitZero /\ ~hasTestFailures(marker))

\* runTests that looks at the last result only
NextStageNoShortCircuit(stage, passed) ==
  IF stage = "lint" THEN "build"
  ELSE IF stage = "build" THEN "test"
  ELSE "return"

\* BugFixerAgent.runTests: where it goes after a stage returned
NextStage(stage, passed) ==
  IF ~passed THEN "return"
  ELSE IF stage = "lint" THEN "build"
  ELSE IF stage = "build" THEN "test"
  ELSE "return"

\* approveProposal without the test of the validation result
ValidationFailedIgnored(passed) == FALSE

\* approveProposal: the test of the result that runTests returned
ValidationFailed(passed) == ~passed

Verdict(passed) == IF passed THEN "pass" ELSE "fail"

\* what a call does when a stage returned: either the next stage starts, or
\* runTests returns this result and approveProposal goes on to the failure
\* mail or to createPullRequest
AfterStage(r, stage, passed) ==
  IF NextStage(stage, passed) = "return"
    THEN [r EXCEPT !.ret = stage,
                   !.pc = IF ValidationFailed(passed) THEN "failMail"
                                                      ELSE "createPR"]
    ELSE [r EXCEPT !.pc = NextStage(stage, passed)]

runLint(c, passed) ==
  /\ c \in Calls /\ c.pc = "lint"
  /\ passed \in {runLintPassed(d, z) : d \in BOOLEAN, z \in BOOLEAN}
  /\ Go(c, AfterStage([c EXCEPT !.lint = Verdict(passed)],
                        "lint", passed))
  /\ UNCHANGED <<proposals, status, effects, workingDir, started,
                 requests>>

runBuild(c, passed) ==
  /\ c \in Calls /\ c.pc = "build"
  /\ passed \in {runBuildPassed(d, z) : d \in BOOLEAN, z \in BOOLEAN}
  /\ Go(c, AfterStage([c EXCEPT !.build = Verdict(passed)],
                        "build", passed))
  /\ UNCHANGED <<proposals, status, effects, workingDir, started,
                 requests>>

runTests(c, passed) ==
  /\ c \in Calls /\ c.pc = "test"
  /\ passed \in {runTestsPassed(d, z, m) :
                   d \in BOOLEAN, z \in BOOLEAN, m \in BOOLEAN}
  /\ Go(c, AfterStage([c EXCEPT !.test = Verdict(passed)],
                        "test", passed))
  /\ UNCHANGED <<proposals, status, effects, workingDir, started,
                 requests>>

\* sendConfirmationEmail that rethrows like sendValidationEmail does
sendConfirmationEmailRethrows(delivered) == ~delivered

\* EmailService.sendConfirmationEmail logs a transport failure and returns
sendConfirmationEmailThrows(delivered) == FALSE

\* approveProposal, validation failed: the failure mail returned, the
\* proposal is marked rejected and the call returns normally, so the route
\* answers with its success body
failMail(c, delivered) ==
  /\ c \in Calls /\ c.pc = "failMail"
  /\ IF sendConfirmationEmailThrows(delivered)
       THEN Throw(c, "MailError")
       ELSE /\ status' = [status EXCEPT ![c.id] = "rejected"]
            /\ Finish(c, 200, "ok", Note("outcome", "", FALSE, delivered))
  /\ UNCHANGED <<proposals, effects, workingDir, started,
                 requests>>

\* github.createPullRequest, then proposal.status = 'applied'
createPullRequest(c, ok) ==
  /\ c \in Calls /\ c.pc = "createPR"
  /\ IF ok
       THEN /\ effects' = [effects EXCEPT ![c.id] = @ \cup {"pr"}]
            /\ status' = [status EXCEPT ![c.id] = "applied"]
            /\ Go(c, [c EXCEPT !.pc = "comment", !.pr = TRUE])
       ELSE /\ Throw(c, "createPullRequest")
            /\ UNCHANGED effects
  /\ UNCHANGED <<proposals, workingDir, started, requests>>

\* github.addCommentToIssue
addCommentToIssue(c, ok) ==
  /\ c \in Calls /\ c.pc = "comment"
  /\ IF ok
       THEN /\ Go(c, [c EXCEPT !.pc = "okMail"])
            /\ UNCHANGED status
       ELSE Throw(c, "addCommentToIssue")
  /\ UNCHANGED <<proposals, effects, workingDir, started, requests>>

\* sendConfirmationEmail(proposal, pr.url, true) returned: the call ends
okMail(c, delivered) ==
  /\ c \in Calls /\ c.pc = "okMail"
  /\ IF sendConfirmationEmailThrows(delivered)
       THEN Throw(c, "MailError")
       ELSE /\ Finish(c, 200, "ok", Note("outcome", "url", TRUE, delivered))
            /\ UNCHANGED status
  /\ UNCHANGED <<proposals, effects, workingDir, started,
                 requests>>

\* catch block: sendConfirmationEmail(proposal, '', false) returned and the
\* caught error is rethrown; an error thrown by the mail would replace it
catchMail(c, delivered) ==
  /\ c \in Calls /\ c.pc = "catchMail"
  /\ Finish(c, 500,
            IF sendConfirmationEmailThrows(delivered) THEN "MailError"
                                                      ELSE c.err,
            Note("outcome", "", FALSE, delivered))
  /\ UNCHANGED <<proposals, status, effects, workingDir, started,
                 requests>>

\* ------------------------------------------------------ specification
Next ==
  \/ /\ \E id \in Ids, body \in BOOLEAN, query \in SUBSET {"repo"} :
          rejectProposal(id, repositoryUrl(body, query))
     /\ UNCHANGED <<apply, llm, scan, ctx, found, runner>>
  \/ /\ \E v \in BOOLEAN : analyzeRoute(v)
     /\ UNCHANGED <<apply, llm, scan, ctx, found, runner>>
  \/ /\ \E id \in Ids, body \in BOOLEAN, query \in SUBSET {"repo"} :
          approveProposal(id, repositoryUrl(body, query))
     /\ UNCHANGED <<apply, llm, scan, ctx, found, runner>>
  \/ /\ \E c \in Calls, ok \in BOOLEAN, f \in BOOLEAN, reason \in Reasons :
          analyzeSingleIssue(c, ok, f, reason)
     /\ UNCHANGED <<apply, llm, scan, ctx, found, runner>>
  \/ /\ \E c \in Calls, d \in BOOLEAN : sendNoFixEmail(c, d)
     /\ UNCHANGED <<apply, llm, scan, ctx, found, runner>>
  \/ /\ \E c \in Calls, d \in BOOLEAN : sendValidationEmail(c, d)
     /\ UNCHANGED <<apply, llm, scan, ctx, found, runner>>
  \/ /\ \E c \in Calls : prepareAccess(c)
     /\ UNCHANGED <<apply, llm, scan, ctx, found, runner>>
  \/ /\ \E c \in Calls, ok \in BOOLEAN : preparePull(c, ok)
     /\ UNCHANGED <<apply, llm, scan, ctx, found, runner>>
  \/ /\ \E c \in Calls, ok \in BOOLEAN : prepareMkdir(c, ok)
     /\ UNCHANGED <<apply, llm, scan, ctx, found, runner>>
  \/ /\ \E c \in Calls, ok \in BOOLEAN : prepareClone(c, ok)
     /\ UNCHANGED <<apply, llm, scan, ctx, found, runner>>
  \/ /\ \E c \in Calls, ok \in BOOLEAN : getDefaultBranch(c, ok)
     /\ UNCHANGED <<apply, llm, scan, ctx, found, runner>>
  \/ /\ \E c \in Calls : getDefaultBranchFallback(c)
     /\ UNCHANGED <<apply, llm, scan, ctx, found, runner>>
  \/ /\ \E c \in Calls, ok \in BOOLEAN, more \in BOOLEAN :
          createBranch(c, ok, more)
     /\ UNCHANGED <<apply, llm, scan, ctx, found, runner>>
  \/ /\ \E c \in Calls, o \in {"found", "notFound", "ioError"} : applyRead(c, o)
     /\ UNCHANGED <<apply, llm, scan, ctx, found, runner>>
  \/ /\ \E c \in Calls, ok \in BOOLEAN : applyWrite(c, ok)
     /\ UNCHANGED <<apply, llm, scan, ctx, found, runner>>
  \/ /\ \E c \in Calls, ok \in BOOLEAN, more \in BOOLEAN :
          applyCommit(c, ok, more)
     /\ UNCHANGED <<apply, llm, scan, ctx, found, runner>>
  \/ /\ \E c \in Calls, ok \in BOOLEAN : push(c, ok)
     /\ UNCHANGED <<apply, llm, scan, ctx, found, runner>>
  \/ /\ \E c \in Calls, p \in BOOLEAN : runLint(c, p)
     /\ UNCHANGED <<apply, llm, scan, ctx, found, runner>>
  \/ /\ \E c \in Calls, p \in BOOLEAN : runBuild(c, p)
     /\ UNCHANGED <<apply, llm, scan, ctx, found, runner>>
  \/ /\ \E c \in Calls, p \in BOOLEAN : runTests(c, p)
     /\ UNCHANGED <<apply, llm, scan, ctx, found, runner>>
  \/ /\ \E c \in Calls, d \in BOOLEAN : failMail(c, d)
     /\ UNCHANGED <<apply, llm, scan, ctx, found, runner>>
  \/ /\ \E c \in Calls, ok \in BOOLEAN : createPullRequest(c, ok)
     /\ UNCHANGED <<apply, llm, scan, ctx, found, runner>>
  \/ /\ \E c \in Calls, ok \in BOOLEAN : addCommentToIssue(c, ok)
     /\ UNCHANGED <<apply, llm, scan, ctx, found, runner>>
  \/ /\ \E c \in Calls, d \in BOOLEAN : okMail(c, d)
     /\ UNCHANGED <<apply, llm, scan, ctx, found, runner>>
  \/ /\ \E c \in Calls, d \in BOOLEAN : catchMail(c, d)
     /\ UNCHANGED <<apply, llm, scan, ctx, found, runner>>

Spec == Init /\ [][Next]_vars

\* a collaborator call of a request in flight returns or throws
Resume ==
  /\ UNCHANGED <<apply, llm, scan, ctx, found, runner>>
  /\
     \/ \E c \in Calls, ok \in BOOLEAN, f \in BOOLEAN, reason \in Reasons :
             analyzeSingleIssue(c, ok, f, reason)
     \/ \E c \in Calls, d \in BOOLEAN : sendNoFixEmail(c, d)
     \/ \E c \in Calls, d \in BOOLEAN : sendValidationEmail(c, d)
     \/ \E c \in Calls : prepareAccess(c)
     \/ \E c \in Calls, ok \in BOOLEAN : preparePull(c, ok)
     \/ \E c \in Calls, ok \in BOOLEAN : prepareMkdir(c, ok)
     \/ \E c \in Calls, ok \in BOOLEAN : prepareClone(c, ok)
     \/ \E c \in Calls, ok \in BOOLEAN : getDefaultBranch(c, ok)
     \/ \E c \in Calls : getDefaultBranchFallback(c)
     \/ \E c \in Calls, ok \in BOOLEAN, more \in BOOLEAN :
             createBranch(c, ok, more)
     \/ \E c \in Calls, o \in {"found", "notFound", "ioError"} : applyRead(c, o)
     \/ \E c \in Calls, ok \in BOOLEAN : applyWrite(c, ok)
     \/ \E c \in Calls, ok \in BOOLEAN, more \in BOOLEAN :
             applyCommit(c, ok, more)
     \/ \E c \in Calls, ok \in BOOLEAN : push(c, ok)
     \/ \E c \in Calls, p \in BOOLEAN : runLint(c, p)
     \/ \E c \in Calls, p \in BOOLEAN : runBuild(c, p)
     \/ \E c \in Calls, p \in BOOLEAN : runTests(c, p)
     \/ \E c \in Calls, d \in BOOLEAN : failMail(c, d)
     \/ \E c \in Calls, ok \in BOOLEAN : createPullRequest(c, ok)
     \/ \E c \in Calls, ok \in BOOLEAN : addCommentToIssue(c, ok)
     \/ \E c \in Calls, d \in BOOLEAN : okMail(c, d)
     \/ \E c \in Calls, d \in BOOLEAN : catchMail(c, d)

\* applyChanges leaves its loop: codeChanges is a finite array
LastChange ==
  /\ UNCHANGED <<apply, llm, scan, ctx, found, runner>>
  /\ \E c \in Calls, ok \in BOOLEAN : applyCommit(c, ok, FALSE)

\* the approve calls among the requests in flight
Pipelines(b) ==
  LET approves == {r \in BagToSet(b) : r.op = "approve"}
  IN BagCardinality([r \in approves |-> CopiesIn(r, b)])

\* the agent after every id was handed out to a proposal by an /analyze
\* request: the proposals are stored and pending, no call is in flight
InitPipelines ==
  /\ proposals = Ids
  /\ status = [i \in Ids |-> "pending"]
  /\ effects = [i \in Ids |-> {}]
  /\ workingDir = FALSE
  /\ started = [i \in Ids |-> 0]
  /\ call = EmptyBag
  /\ res = NoRes
  /\ requests = MaxProposals
  /\ apply = NoRun /\ llm = NoRun /\ scan = NoRun
  /\ ctx = NoRun /\ found = NoRun /\ runner = NoRun

\* the approve and reject requests and the steps of the approve calls, at
\* most MaxPipelines of them in flight
NextPipelines ==
  \/ /\ \E id \in Ids, body \in BOOLEAN, query \in SUBSET {"repo"} :
          rejectProposal(id, repositoryUrl(body, query))
     /\ UNCHANGED <<apply, llm, scan, ctx, found, runner>>
  \/ /\ Pipelines(call) < MaxPipelines
     /\ \E id \in Ids, body \in BOOLEAN, query \in SUBSET {"repo"} :
          approveProposal(id, repositoryUrl(body, query))
     /\ UNCHANGED <<apply, llm, scan, ctx, found, runner>>
  \/ /\ \E c \in Calls : prepareAccess(c)
     /\ UNCHANGED <<apply, llm, scan, ctx, found, runner>>
  \/ /\ \E c \in Calls, ok \in BOOLEAN : preparePull(c, ok)
     /\ UNCHANGED <<apply, llm, scan, ctx, found, runner>>
  \/ /\ \E c \in Calls, ok \in BOOLEAN : prepareMkdir(c, ok)
     /\ UNCHANGED <<apply, llm, scan, ctx, found, runner>>
  \/ /\ \E c \in Calls, ok \in BOOLEAN : prepareClone(c, ok)
     /\ UNCHANGED <<apply, llm, scan, ctx, found, runner>>
  \/ /\ \E c \in Calls, ok \in BOOLEAN : getDefaultBranch(c, ok)
     /\ UNCHANGED <<apply, llm, scan, ctx, found, runner>>
  \/ /\ \E c \in Calls : getDefaultBranchFallback(c)
     /\ UNCHANGED <<apply, llm, scan, ctx, found, runner>>
  \/ /\ \E c \in Calls, ok \in BOOLEAN, more \in BOOLEAN :
          createBranch(c, ok, more)
     /\ UNCHANGED <<apply, llm, scan, ctx, found, runner>>
  \/ /\ \E c \in Calls, o \in {"found", "notFound", "ioError"} : applyRead(c, o)
     /\ UNCHANGED <<apply, llm, scan, ctx, found, runner>>
  \/ /\ \E c \in Calls, ok \in BOOLEAN : applyWrite(c, ok)
     /\ UNCHANGED <<apply, llm, scan, ctx, found, runner>>
  \/ /\ \E c \in Calls, ok \in BOOLEAN, more \in BOOLEAN :
          applyCommit(c, ok, more)
     /\ UNCHANGED <<apply, llm, scan, ctx, found, runner>>
  \/ /\ \E c \in Calls, ok \in BOOLEAN : push(c, ok)
     /\ UNCHANGED <<apply, llm, scan, ctx, found, runner>>
  \/ /\ \E c \in Calls, p \in BOOLEAN : runLint(c, p)
     /\ UNCHANGED <<apply, llm, scan, ctx, found, runner>>
  \/ /\ \E c \in Calls, p \in BOOLEAN : runBuild(c, p)
     /\ UNCHANGED <<apply, llm, scan, ctx, found, runner>>
  \/ /\ \E c \in Calls, p \in BOOLEAN : runTests(c, p)
     /\ UNCHANGED <<apply, llm, scan, ctx, found, runner>>
  \/ /\ \E c \in Calls, d \in BOOLEAN : failMail(c, d)
     /\ UNCHANGED <<apply, llm, scan, ctx, found, runner>>
  \/ /\ \E c \in Calls, ok \in BOOLEAN : createPullRequest(c, ok)
     /\ UNCHANGED <<apply, llm, scan, ctx, found, runner>>
  \/ /\ \E c \in Calls, ok \in BOOLEAN : addCommentToIssue(c, ok)
     /\ UNCHANGED <<apply, llm, scan, ctx, found, runner>>
  \/ /\ \E c \in Calls, d \in BOOLEAN : okMail(c, d)
     /\ UNCHANGED <<apply, llm, scan, ctx, found, runner>>
  \/ /\ \E c \in Calls, d \in BOOLEAN : catchMail(c, d)
     /\ UNCHANGED <<apply, llm, scan, ctx, found, runner>>

\* every awaited collaborator call eventually settles
FairSpec ==
  /\ InitPipelines /\ [][NextPipelines]_vars
  /\ WF_vars(Resume) /\ SF_vars(LastChange)

TypeOK ==
  /\ proposals \subseteq Ids
  /\ status \in [Ids -> Statuses \cup {"none"}]
  /\ effects \in [Ids -> SUBSET Effects]
  /\ workingDir \in BOOLEAN
  /\ started \in [Ids -> 0..StartedCap]
  /\ requests \in 0..MaxRequests
  /\ res.http \in {0, 200, 400, 500}
  /\ BagCardinality(call) <= MaxCalls
  /\ \A c \in Calls : c.op \in {"analyze", "approve"}

\* =============================================== applyChanges on text
\* One run of BugFixerAgent.applyChanges with the file contents, the
\* originalCode and the newCode spelled out as sequences of characters.
Chars == {"a", "$", "&"}
Paths == {"f"}

Strs(n) == UNION {[1..m -> Chars] : m \in 0..n}

\* a file of the working tree: absent, or present with its text
NoFile == [exists |-> FALSE, text |-> <<>>]
File(t) == [exists |-> TRUE, text |-> t]

CodeChanges ==
  [filePath : Paths, originalCode : Strs(MaxOriginal), newCode : Strs(MaxNew)]

NoChange == [filePath |-> "", originalCode |-> <<>>, newCode |-> <<>>]

NoErr == [kind |-> "none", path |-> ""]

\* String.prototype.indexOf: the first position (from 0) at which s occurs
\* in content, -1 when there is none
indexOf(content, s) ==
  LET at == {i \in 0..(Len(content) - Len(s)) :
               SubSeq(content, i + 1, i + Len(s)) = s}
  IN IF at = {} THEN -1 ELSE CHOOSE i \in at : \A j \in at : i <= j

\* an includes that finds every string
includesAnything(content, s) == TRUE

\* String.prototype.includes
includes(content, s) == indexOf(content, s) # -1

\* GetSubstitution of String.prototype.replace for a string pattern (no
\* captures): $$ is a dollar, $& the match, $` the text before the match,
\* $' the text after it; every other character stands for itself
RECURSIVE GetSubstitution(_, _, _, _)
GetSubstitution(matched, str, position, replacement) ==
  IF replacement = <<>> THEN <<>>
  ELSE
    LET c == Head(replacement)
        rest == Tail(replacement)
    IN IF c = "$" /\ rest # <<>> /\ Head(rest) \in {"$", "&", "`", "'"}
         THEN (CASE Head(rest) = "$" -> <<"$">>
                 [] Head(rest) = "&" -> matched
                 [] Head(rest) = "`" -> SubSeq(str, 1, position)
                 [] Head(rest) = "'" ->
                      SubSeq(str, position + Len(matched) + 1, Len(str)))
              \o GetSubstitution(matched, str, position, Tail(rest))
         ELSE <<c>> \o GetSubstitution(matched, str, position, rest)

\* content.replace(originalCode, newCode) with two strings: the first
\* occurrence is replaced by the substitution; without an occurrence the
\* content is returned as it is
replace(content, originalCode, newCode) ==
  LET position == indexOf(content, originalCode) IN
    IF position = -1 THEN content
    ELSE SubSeq(content, 1, position)
         \o GetSubstitution(originalCode, content, position, newCode)
         \o SubSeq(content, position + Len(originalCode) + 1, Len(content))

\* fs.readFile inside its try: the text, or '' when the read fails
readFile(files, path) == IF files[path].exists THEN files[path].text ELSE <<>>

\* what applyChanges writes for a change, given what it read
written(content, change) ==
  IF change.originalCode # <<>>
    THEN replace(content, change.originalCode, change.newCode)
    ELSE change.newCode

InitApply ==
  /\ InitAgent
  /\ llm = NoRun /\ scan = NoRun
  /\ ctx = NoRun /\ found = NoRun /\ runner = NoRun
  /\ \E fs \in [Paths -> {NoFile} \cup {File(t) : t \in Strs(MaxText)}],
        n \in 0..MaxChanges :
       apply = [pc |-> "loop", files |-> fs, todo |-> n, k |-> 0,
                change |-> NoChange, reads |-> {}, writes |-> {},
                commits |-> {}, pushed |-> FALSE, err |-> NoErr]

\* the loop takes the next change: mkdir of the parent, then for a
\* non-empty originalCode the read and the includes test, then the write
applyChange(change, fsOk) ==
  /\ apply.pc = "loop" /\ apply.todo > 0
  /\ LET k == apply.k + 1
         content == readFile(apply.files, change.filePath)
         taken == [apply EXCEPT !.k = k, !.todo = @ - 1, !.change = change]
     IN IF change.originalCode # <<>>
          THEN IF ~includes(content, change.originalCode)
                 THEN apply' = [taken EXCEPT
                        !.reads = @ \cup {k}, !.pc = "thrown",
                        !.err = [kind |-> "OriginalCodeNotFound",
                                 path |-> change.filePath]]
                 ELSE IF ~fsOk
                   THEN apply' = [taken EXCEPT
                          !.reads = @ \cup {k}, !.pc = "thrown",
                          !.err = [kind |-> "fs", path |-> change.filePath]]
                   ELSE /\ Len(written(content, change)) <= MaxText
                        /\ apply' = [taken EXCEPT
                             !.reads = @ \cup {k}, !.writes = @ \cup {k},
                             !.files[change.filePath] =
                                File(written(content, change)),
                             !.pc = "commit"]
          ELSE IF ~fsOk
            THEN apply' = [taken EXCEPT
                   !.pc = "thrown",
                   !.err = [kind |-> "fs", path |-> change.filePath]]
            ELSE apply' = [taken EXCEPT
                   !.writes = @ \cup {k},
                   !.files[change.filePath] = File(written(content, change)),
                   !.pc = "commit"]
  /\ UNCHANGED <<agent, llm, scan, ctx, found, runner>>

\* git add and git commit of the change
commitChange(ok) ==
  /\ apply.pc = "commit"
  /\ apply' = IF ok
       THEN [apply EXCEPT !.commits = @ \cup {apply.k}, !.pc = "loop",
                          !.change = NoChange]
       ELSE [apply EXCEPT !.pc = "thrown",
                          !.err = [kind |-> "git", path |-> ""]]
  /\ UNCHANGED <<agent, llm, scan, ctx, found, runner>>

\* after the last change: git push origin <branch>
pushBranch(ok) ==
  /\ apply.pc = "loop" /\ apply.todo = 0
  /\ apply' = IF ok
       THEN [apply EXCEPT !.pushed = TRUE, !.pc = "done"]
       ELSE [apply EXCEPT !.pc = "thrown",
                          !.err = [kind |-> "git", path |-> ""]]
  /\ UNCHANGED <<agent, llm, scan, ctx, found, runner>>

NextApply ==
  \/ \E change \in CodeChanges, fsOk \in BOOLEAN : applyChange(change, fsOk)
  \/ \E ok \in BOOLEAN : commitChange(ok)
  \/ \E ok \in BOOLEAN : pushBranch(ok)

ApplySpec == InitApply /\ [][NextApply]_vars

\* ============================================ LLMService.analyzeIssue
\* One call of analyzeIssue on every kind of answer the model API can give.
\* A JSON value that may be absent: type is "undefined" for a missing field,
\* nan says that ToNumber of the value is NaN, num is ToNumber otherwise.
JSValue(type, num, nan) == [type |-> type, num |-> num, nan |-> nan]

Undefined == JSValue("undefined", 0, TRUE)

Confidences ==
  {Undefined, JSValue("null", 0, FALSE),
   JSValue("string", 0, TRUE),        \* "high"
   JSValue("string", 80, FALSE),      \* "80"
   JSValue("string", 50, FALSE)}      \* "50"
  \cup {JSValue("number", n, FALSE) : n \in {0, 69, 70, 100}}

\* the < operator of JavaScript with a number on the right: ToNumber of the
\* left operand, and false when that is NaN
LessThan(v, n) == ~v.nan /\ v.num < n

\* ToBoolean of a confidence value
Truthy(v) ==
  \/ v.type = "number" /\ v.num # 0
  \/ v.type = "string"

\* the answers of the model API: the request fails, the status is not OK,
\* the content is empty, the content is no JSON, the JSON is null, or the
\* JSON is an object with some of the fields of the response format
NoFields ==
  [shouldFix |-> "undefined", confidence |-> Undefined, reason |-> "undefined",
   title |-> "undefined", description |-> "undefined",
   codeChanges |-> "undefined"]

Responses ==
  {[kind |-> k, fields |-> NoFields] :
     k \in {"requestFailed", "notOK", "empty", "noJSON", "null"}}
  \cup
  {[kind |-> "object", fields |-> f] :
     f \in [shouldFix : {"undefined", "false", "true"},
            confidence : Confidences,
            reason : {"undefined", "", "text"},
            title : {"undefined", "text"},
            description : {"undefined", "text"},
            codeChanges : {"undefined", "noArray", "nullElement", "array"}]}

NoProposal ==
  [title |-> "undefined", description |-> "undefined", confidence |-> Undefined,
   status |-> "none"]

AnalysisResult(shouldFix, confidence, reason, hasProposal, proposal) ==
  [shouldFix |-> shouldFix, confidence |-> confidence, reason |-> reason,
   hasProposal |-> hasProposal, proposal |-> proposal]

NoResult == AnalysisResult(FALSE, Undefined, "", FALSE, NoProposal)

\* the catch block of analyzeIssue
Caught ==
  AnalysisResult(FALSE, JSValue("number", 0, FALSE),
                 "Error during analysis", FALSE, NoProposal)

\* the confidence floor of analyzeIssue
Skipped(analysis) ==
  analysis.shouldFix # "true" \/ LessThan(analysis.confidence, 70)

InitLLM ==
  /\ InitAgent
  /\ apply = NoRun /\ scan = NoRun
  /\ ctx = NoRun /\ found = NoRun /\ runner = NoRun
  /\ \E r \in Responses :
       llm = [pc |-> "callLLM", response |-> r, result |-> NoResult]

\* callLLM: fetch rejects or the status is not OK (both throw into the
\* catch of analyzeIssue), or the body is returned
callLLM ==
  /\ llm.pc = "callLLM"
  /\ llm' = IF llm.response.kind \in {"requestFailed", "notOK"}
       THEN [llm EXCEPT !.pc = "returned", !.result = Caught]
       ELSE [llm EXCEPT !.pc = "content"]
  /\ UNCHANGED <<agent, apply, scan, ctx, found, runner>>

\* analyzeIssue after callLLM: the empty-content test, JSON.parse, the
\* confidence floor and the proposal; a TypeError or SyntaxError on the way
\* lands in the catch
analyzeIssue ==
  /\ llm.pc = "content"
  /\ LET r == llm.response
         analysis == r.fields
     IN llm' = [llm EXCEPT !.pc = "returned", !.result =
          IF r.kind = "empty"
            THEN AnalysisResult(FALSE, JSValue("number", 0, FALSE),
                                "Failed to get response from AI model",
                                FALSE, NoProposal)
          ELSE IF r.kind \in {"noJSON", "null"} THEN Caught
          ELSE IF Skipped(analysis)
            THEN AnalysisResult(FALSE,
                   IF Truthy(analysis.confidence)
                     THEN analysis.confidence
                     ELSE JSValue("number", 0, FALSE),
                   IF analysis.reason \in {"undefined", ""}
                     THEN "No fix proposed"
                     ELSE analysis.reason,
                   FALSE, NoProposal)
          ELSE IF analysis.codeChanges # "array" THEN Caught
          ELSE AnalysisResult(TRUE, analysis.confidence,
                 IF analysis.reason \in {"undefined", ""}
                   THEN "Fix proposed with high confidence"
                   ELSE analysis.reason,
                 TRUE,
                 [title |-> analysis.title,
                  description |-> analysis.description,
                  confidence |-> analysis.confidence,
                  status |-> "pending"])]
  /\ UNCHANGED <<agent, apply, scan, ctx, found, runner>>

NextLLM ==
  \/ callLLM
  \/ analyzeIssue

LLMSpec == InitLLM /\ [][NextLLM]_vars

\* ------------------------------------------ scanAndAnalyze (ScanSpec)
\* how analyzeSingleIssue ends for one issue of the list: it returns the
\* stored proposal, returns null after the no-fix notice, or throws (while
\* building the context, in the validation mail after the proposal was
\* stored, or in the no-fix notice)
Outcomes ==
  {"proposal", "null", "contextThrows", "validationMailThrows",
   "noFixMailThrows"}

Throws(outcome) ==
  outcome \in {"contextThrows", "validationMailThrows", "noFixMailThrows"}

Stores(outcome) == outcome \in {"proposal", "validationMailThrows"}

\* the run of scanAndAnalyze: analysisLimit = limit || config.limit (0 when
\* neither is given: unlimited), the number of issues fetched, the issues
\* handed to processIssue in order with the outcome of each, the issues
\* whose failure was logged, the issues with a stored proposal
InitScan ==
  /\ InitAgent
  /\ apply = NoRun /\ llm = NoRun
  /\ ctx = NoRun /\ found = NoRun /\ runner = NoRun
  /\ \E limit \in 0..MaxIssues :
       scan = [pc |-> "getIssues", analysisLimit |-> limit, issues |-> 0,
               attempted |-> <<>>, outcomes |-> <<>>, logged |-> {},
               stored |-> {}, err |-> "none"]

\* the number of issues that GitHubService.getIssues returns when the
\* tracker lists open issues: its signature is getIssues(labels), the limit
\* passed as second argument is dropped and every listed issue is mapped
listForRepo(open, limit) == open

\* github.getIssues(labels, analysisLimit) with n open issues listed by the
\* tracker: a rejection is logged by the catch of scanAndAnalyze and
\* rethrown
getIssues(ok, n) ==
  /\ scan.pc = "getIssues"
  /\ scan' = IF ok
       THEN [scan EXCEPT !.pc = "loop",
                         !.issues = listForRepo(n, scan.analysisLimit)]
       ELSE [scan EXCEPT !.pc = "thrown", !.err = "getIssues"]
  /\ UNCHANGED <<agent, apply, llm, ctx, found, runner>>

\* what the catch of processIssue lets out
catchRethrows(outcome) == Throws(outcome)

catchProcessIssue(outcome) == FALSE

\* one turn of the for loop: await processIssue(issue)
processIssue(outcome) ==
  /\ scan.pc = "loop"
  /\ Len(scan.attempted) < scan.issues
  /\ LET k == Len(scan.attempted) + 1
     IN scan' =
          [scan EXCEPT
             !.attempted = Append(@, k),
             !.outcomes = Append(@, outcome),
             !.stored = IF Stores(outcome) THEN @ \cup {k} ELSE @,
             !.logged = IF Throws(outcome) THEN @ \cup {k} ELSE @,
             !.pc = IF catchProcessIssue(outcome) THEN "thrown" ELSE @,
             !.err = IF catchProcessIssue(outcome) THEN outcome ELSE @]
  /\ UNCHANGED <<agent, apply, llm, ctx, found, runner>>

\* the loop is over: scanAndAnalyze resolves
completeScan ==
  /\ scan.pc = "loop"
  /\ Len(scan.attempted) = scan.issues
  /\ scan' = [scan EXCEPT !.pc = "done"]
  /\ UNCHANGED <<agent, apply, llm, ctx, found, runner>>

NextScan ==
  \/ \E ok \in BOOLEAN, n \in 0..MaxIssues : getIssues(ok, n)
  \/ \E outcome \in Outcomes : processIssue(outcome)
  \/ completeScan

ScanSpec == InitScan /\ [][NextScan]_vars

\* ------------------------------ gatherRepositoryContext (ContextSpec)
\* configFiles.length, filesToRead.slice(0, 15), content.length > 3000,
\* substring(0, 1500), substring(length - 1000), length - 2500
NumConfigFiles == 8
ConfigHead == 1500
SliceEnd == 15
Threshold == 3000
HeadLen == 1500
TailLen == 1000
Removed == 2500

Min(a, b) == IF a <= b THEN a ELSE b
Max(a, b) == IF a >= b THEN a ELSE b

\* what github.getFileContent gives for a path: the decoded content (a
\* text stands for its length, its characters are the positions
\* 0..length-1 of the file), null (404, a directory, no content) or a
\* rejection (any other tracker error)
Fetches ==
  << [kind |-> "content", length |-> 1],
     [kind |-> "throws", length |-> 0],
     [kind |-> "content", length |-> Threshold],
     [kind |-> "content", length |-> Threshold + 1],
     [kind |-> "null", length |-> 0],
     [kind |-> "content", length |-> Threshold + HeadLen] >>

\* the repositories of the check: the file at position k has the fetch
\* outcome number first + k * step of Fetches, counted cyclically
getFileContent(repo, k) ==
  Fetches[((repo.first + k * repo.step) % Len(Fetches)) + 1]

\* a piece of a block: characters from..to-1 of the file, or the marker
\* '... [n characters truncated] ...'
Chunk(from, to) == [kind |-> "chars", from |-> from, to |-> to, n |-> 0]
Marker(n) == [kind |-> "marker", from |-> 0, to |-> 0, n |-> n]

\* String.prototype.substring(start, end) on a text of that length: both
\* indices are clamped to 0..length and swapped when start > end
substring(length, start, end) ==
  LET a == Min(Max(start, 0), length)
      b == Min(Max(end, 0), length)
  IN Chunk(Min(a, b), Max(a, b))

\* the text pushed for a candidate file
truncatedContentWhole(length) == <<Chunk(0, length)>>

truncatedContent(length) ==
  IF length > Threshold
    THEN << substring(length, 0, HeadLen),
            Marker(length - Removed),
            substring(length, length - TailLen, length) >>
    ELSE <<Chunk(0, length)>>

\* '\n=== path ===\n' followed by the text
Block(tag, path, body) == [tag |-> tag, path |-> path, body |-> body]

\* what the catch around one getFileContent lets out
catchFileRethrows(f) == f.kind = "throws"

catchFile(f) == FALSE

Unavailable == "Repository context unavailable"

\* contextParts after the try around the fetch of one file
pushFile(parts, tag, k, f, body) ==
  IF f.kind = "content" THEN Append(parts, Block(tag, k, body)) ELSE parts

InitContext ==
  /\ InitAgent
  /\ apply = NoRun /\ llm = NoRun /\ scan = NoRun
  /\ found = NoRun /\ runner = NoRun
  /\ \E first \in 0..(Len(Fetches) - 1), step \in 0..1 :
       ctx = [pc |-> "config", repo |-> [first |-> first, step |-> step],
              i |-> 0, rootOk |-> TRUE, filesToRead |-> 0,
              contextParts |-> <<>>, result |-> "none"]

\* 1. one turn of the loop over configFiles
readConfigFile ==
  /\ ctx.pc = "config"
  /\ LET k == ctx.i + 1
         f == getFileContent(ctx.repo, k)
     IN ctx' =
          IF catchFile(f)
            THEN [ctx EXCEPT !.pc = "returned", !.result = Unavailable]
            ELSE [ctx EXCEPT
                    !.i = IF k = NumConfigFiles THEN 0 ELSE k,
                    !.pc = IF k = NumConfigFiles THEN "structure" ELSE @,
                    !.contextParts =
                       pushFile(@, "config", k, f,
                                <<substring(f.length, 0, ConfigHead)>>)]
  /\ UNCHANGED <<agent, apply, llm, scan, found, runner>>

\* 2. getRepositoryContent(''): a rejection lands in the outer catch, which
\* returns the fixed string
getRootContent(ok) ==
  /\ ctx.pc = "structure"
  /\ ctx' = IF ok
       THEN [ctx EXCEPT !.pc = "identify",
                        !.contextParts =
                           Append(@, Block("structure", 0, <<>>))]
       ELSE [ctx EXCEPT !.pc = "returned", !.rootOk = FALSE,
                        !.result = Unavailable]
  /\ UNCHANGED <<agent, apply, llm, scan, found, runner>>

\* 3. identifyRelevantFiles resolved with n candidates; a source directory
\* whose probe failed contributed none of them
identifyRelevantFilesReturns(n) ==
  /\ ctx.pc = "identify"
  /\ ctx' = [ctx EXCEPT !.pc = "files", !.filesToRead = n, !.i = 0]
  /\ UNCHANGED <<agent, apply, llm, scan, found, runner>>

\* one turn of the loop over filesToRead.slice(0, 15)
readSourceFile ==
  /\ ctx.pc = "files"
  /\ ctx.i < Min(ctx.filesToRead, SliceEnd)
  /\ LET k == ctx.i + 1
         f == getFileContent(ctx.repo, k)
     IN ctx' =
          IF catchFile(f)
            THEN [ctx EXCEPT !.pc = "returned", !.result = Unavailable]
            ELSE [ctx EXCEPT
                    !.i = k,
                    !.contextParts =
                       pushFile(@, "source", k, f,
                                truncatedContent(f.length))]
  /\ UNCHANGED <<agent, apply, llm, scan, found, runner>>

\* return contextParts.join('\n')
returnContext ==
  /\ ctx.pc = "files"
  /\ ctx.i = Min(ctx.filesToRead, SliceEnd)
  /\ ctx' = [ctx EXCEPT !.pc = "returned", !.result = "joined"]
  /\ UNCHANGED <<agent, apply, llm, scan, found, runner>>

NextContext ==
  \/ readConfigFile
  \/ \E ok \in BOOLEAN : getRootContent(ok)
  \/ \E n \in 0..MaxCandidates : identifyRelevantFilesReturns(n)
  \/ readSourceFile
  \/ returnContext

ContextSpec == InitContext /\ [][NextContext]_vars

\* ------------------------------- identifyRelevantFiles (FilesSpec)
\* a repository path is the sequence of its segments; the file names of
\* the check and their extensions
extname(name) ==
  CASE name \in {"a.ts", "b.ts", "c.ts"} -> "ts"
    [] name = "n.md" -> "md"
    [] OTHER -> ""

sourceExtensions ==
  {"rs", "ts", "js", "py", "go", "java", "cpp", "c", "h", "hpp", "cs",
   "php", "rb"}

isSourceFile(path) == extname(path[Len(path)]) \in sourceExtensions

sourceDirs ==
  <<"src", "lib", "app", "api", "core", "models", "controllers",
    "handlers">>

\* an item of a directory listing of the tracker: its line in the string
\* returned by getRepositoryContent is 'type: path', path being the
\* repository path of the item
Item(type, path) == [type |-> type, path |-> path]

\* the sequences over S without repetition
Arrangements(S) ==
  {q \in UNION {[1..n -> S] : n \in 0..Cardinality(S)} :
     \A i, j \in DOMAIN q : i # j => q[i] # q[j]}

\* the sequences over S of at most n elements
UpTo(S, n) == UNION {[1..m -> S] : m \in 0..n}

Absent == [exists |-> FALSE, items |-> <<>>]
Listing(items) == [exists |-> TRUE, items |-> items]

\* the repositories of the check
RootListings ==
  Arrangements({Item("file", <<"a.ts">>), Item("file", <<"b.ts">>),
                Item("file", <<"n.md">>)})

SrcListings ==
  { Absent, Listing(<<>>),
    Listing(<<Item("file", <<"src", "a.ts">>)>>),
    Listing(<<Item("dir", <<"src", "sub">>),
              Item("file", <<"src", "a.ts">>),
              Item("file", <<"src", "n.md">>)>>) }

LibListings == {Absent, Listing(<<Item("file", <<"lib", "b.ts">>)>>)}

\* the paths that the two patterns of extractFileReferences match in
\* title + ' ' + body, in the order of the matches
Mentionable == {<<"a.ts">>, <<"src", "a.ts">>, <<"c.ts">>}

\* the files of a repository
RepoFiles(repo) ==
  {repo.root[i].path : i \in DOMAIN repo.root}
    \cup {repo.src.items[i].path :
            i \in {j \in DOMAIN repo.src.items :
                     repo.src.items[j].type = "file"}}
    \cup {repo.lib.items[i].path : i \in DOMAIN repo.lib.items}
    \cup (IF repo.extra = "content" THEN {<<"c.ts">>} ELSE {})

\* github.getRepositoryContent(dir) for a conventional source directory:
\* a directory that does not exist makes the tracker answer 404, which is
\* rethrown
getRepositoryContent(repo, dir) ==
  CASE dir = "src" -> repo.src
    [] dir = "lib" -> repo.lib
    [] OTHER -> Absent

\* github.getFileContent(mentionedFile) is truthy
fileHasContent(repo, path) ==
  IF path = <<"c.ts">> THEN repo.extra = "content"
  ELSE path \in RepoFiles(repo)

RECURSIVE SelectFiles(_)
\* lines.filter(line => line.startsWith('file:'))
\*      .map(line => line.replace('file:', '').trim())
SelectFiles(items) ==
  IF items = <<>> THEN <<>>
  ELSE (IF items[1].type = "file" THEN <<items[1].path>> ELSE <<>>)
         \o SelectFiles(Tail(items))

RECURSIVE filter(_)
\* .filter(file => this.isSourceFile(file))
filter(paths) ==
  IF paths = <<>> THEN <<>>
  ELSE (IF isSourceFile(paths[1]) THEN <<paths[1]>> ELSE <<>>)
         \o filter(Tail(paths))

rootFiles(items) == filter(SelectFiles(items))

\* .map(line => `${dir}/${line.replace('file:', '').trim()}`): the
\* directory is put in front of the path of the item
dirFiles(dir, items) ==
  LET paths == SelectFiles(items)
  IN filter([i \in DOMAIN paths |-> <<dir>> \o paths[i]])

includesPath(files, path) == \E i \in DOMAIN files : files[i] = path

RECURSIVE NewSet(_)
\* [...new Set(files)]: the first occurrence of each path is kept
NewSet(paths) ==
  IF paths = <<>> THEN <<>>
  ELSE LET init == NewSet(SubSeq(paths, 1, Len(paths) - 1))
           last == paths[Len(paths)]
       IN IF includesPath(init, last) THEN init ELSE Append(init, last)

extractFileReferences(matches) == NewSet(matches)

unshift(files, path) == <<path>> \o files

InitFiles ==
  /\ InitAgent
  /\ apply = NoRun /\ llm = NoRun /\ scan = NoRun
  /\ ctx = NoRun /\ runner = NoRun
  /\ \E root \in RootListings, src \in SrcListings, lib \in LibListings,
        matches \in UpTo(Mentionable, MaxMentions),
        extra \in {"content", "null", "throws"} :
       found = [pc |-> "root",
                repo |-> [root |-> root, src |-> src, lib |-> lib,
                          extra |-> extra],
                matches |-> matches, mentionedFiles |-> <<>>,
                i |-> 0, files |-> <<>>]

\* files.push(...rootFiles)
pushRootFiles ==
  /\ found.pc = "root"
  /\ found' = [found EXCEPT !.pc = "probe",
                            !.files = rootFiles(found.repo.root)]
  /\ UNCHANGED <<agent, apply, llm, scan, ctx, runner>>

\* one turn of the loop over sourceDirs; after the last one the
\* references of the issue are extracted
probeSourceDir ==
  /\ found.pc = "probe"
  /\ LET dir == sourceDirs[found.i + 1]
         dirContent == getRepositoryContent(found.repo, dir)
         last == found.i + 1 = Len(sourceDirs)
     IN found' =
          [found EXCEPT
             !.files = IF dirContent.exists
                         THEN @ \o dirFiles(dir, dirContent.items) ELSE @,
             !.i = IF last THEN 0 ELSE @ + 1,
             !.pc = IF last THEN "mentioned" ELSE @,
             !.mentionedFiles =
                IF last THEN extractFileReferences(found.matches) ELSE @]
  /\ UNCHANGED <<agent, apply, llm, scan, ctx, runner>>

\* one turn of the loop over mentionedFiles
checkMentionedFile ==
  /\ found.pc = "mentioned"
  /\ found.i < Len(found.mentionedFiles)
  /\ LET mentionedFile == found.mentionedFiles[found.i + 1]
     IN found' =
          [found EXCEPT
             !.i = @ + 1,
             !.files =
                IF /\ ~includesPath(@, mentionedFile)
                   /\ fileHasContent(found.repo, mentionedFile)
                  THEN unshift(@, mentionedFile) ELSE @]
  /\ UNCHANGED <<agent, apply, llm, scan, ctx, runner>>

\* return files
returnFiles ==
  /\ found.pc = "mentioned"
  /\ found.i = Len(found.mentionedFiles)
  /\ found' = [found EXCEPT !.pc = "returned"]
  /\ UNCHANGED <<agent, apply, llm, scan, ctx, runner>>

NextFiles ==
  \/ pushRootFiles
  \/ probeSourceDir
  \/ checkMentionedFile
  \/ returnFiles

FilesSpec == InitFiles /\ [][NextFiles]_vars

\* ------------------------------- TestRunnerService (RunnerSpec)
Stages == {"lint", "build", "test"}

\* the output of a command is a sequence of phrases
Phrases == {"ok", "FAIL ", "Error", "failing"}

\* the phrases that a pattern of failurePatterns matches
failurePatterns ==
  [ FAIL |-> {"FAIL "},          \* /FAIL\s+/
    failed |-> {},               \* /failed|failure/i
    error |-> {"Error"},         \* /error|errors/i
    cross |-> {},                \* the two cross marks
    failing |-> {"failing"},     \* /failing/
    exit |-> {} ]                \* /exit.*1/

\* failurePatterns.some(pattern => pattern.test(output))
somePatternMatches(output) ==
  \E p \in DOMAIN failurePatterns, i \in DOMAIN output :
    output[i] \in failurePatterns[p]

\* package.json of the working tree: it cannot be read, or it declares
\* these scripts
NoPackageJson == [readable |-> FALSE, scripts |-> {}]
PackageJsons ==
  {NoPackageJson} \cup [readable : {TRUE}, scripts : SUBSET Stages]

\* detectLintCommand, detectBuildCommand, detectTestCommand: the script of
\* package.json; for the tests also the configuration file of a known
\* test framework; otherwise null
detectCommand(stage, packageJson, testFile) ==
  \/ stage \in packageJson.scripts
  \/ stage = "test" /\ testFile

TestResult(passed, output) == [passed |-> passed, output |-> output]
NoTestResult == TestResult(FALSE, <<"none">>)

\* passed of the result of a stage: only runTests looks at the output
stagePassed(stage, detected, exitZero, output) ==
  CASE stage = "lint" -> runLintPassed(detected, exitZero)
    [] stage = "build" -> runBuildPassed(detected, exitZero)
    [] stage = "test" ->
         runTestsPassed(detected, exitZero, somePatternMatches(output))

InitRunner ==
  /\ InitAgent
  /\ apply = NoRun /\ llm = NoRun /\ scan = NoRun
  /\ ctx = NoRun /\ found = NoRun
  /\ \E stage \in Stages, packageJson \in PackageJsons,
        testFile \in BOOLEAN :
       runner = [pc |-> "detect", stage |-> stage,
                 packageJson |-> packageJson, testFile |-> testFile,
                 exit |-> "none", output |-> <<>>,
                 result |-> NoTestResult]

\* the stage up to its await of execAsync: without a command the stage
\* passes
detect ==
  /\ runner.pc = "detect"
  /\ runner' =
       IF detectCommand(runner.stage, runner.packageJson, runner.testFile)
         THEN [runner EXCEPT !.pc = "exec"]
         ELSE [runner EXCEPT
                 !.pc = "returned",
                 !.result = TestResult(stagePassed(runner.stage, FALSE, FALSE,
                                        <<>>), <<"none">>)]
  /\ UNCHANGED <<agent, apply, llm, scan, ctx, found>>

\* execAsync settled: it rejects on a non-zero exit status and on the
\* timeout
execAsync(exit, output) ==
  /\ runner.pc = "exec"
  /\ runner' =
       [runner EXCEPT
          !.pc = "returned", !.exit = exit, !.output = output,
          !.result = TestResult(stagePassed(runner.stage, TRUE,
                                            exit = "zero", output),
                                output)]
  /\ UNCHANGED <<agent, apply, llm, scan, ctx, found>>

NextRunner ==
  \/ detect
  \/ \E exit \in {"zero", "nonzero", "timeout"},
        output \in UpTo(Phrases, MaxPhrases) : execAsync(exit, output)

RunnerSpec == InitRunner /\ [][NextRunner]_vars

\* ====================================================== properties
\* helpers of the properties
\* the step was taken by a call whose locals were r
Left(r) == r \in Calls /\ CopiesIn(r, call') < CopiesIn(r, call)

\* the call with locals r took the step and now has locals r2
Became(r, r2) ==
  /\ Left(r)
  /\ BagCardinality(call') = BagCardinality(call)
  /\ CopiesIn(r2, call') > CopiesIn(r2, call)

\* the call with locals r returned or threw to its route in this step
Ended(r) == Left(r) /\ BagCardinality(call') < BagCardinality(call)

\* a handler was entered in this step and suspended with locals r2
Began(r2) ==
  /\ BagCardinality(call') > BagCardinality(call)
  /\ CopiesIn(r2, call') > CopiesIn(r2, call)

ApproveCalls(i) == {r \in Calls : r.op = "approve" /\ r.id = i}

ApproveEnds(c) == c.op = "approve" /\ Ended(c)

StageFailed(r) == "fail" \in {r.lint, r.build, r.test}

FailureNote(n) == n.kind = "outcome" /\ ~n.success /\ n.prUrl = ""

SuccessNote(n) == n.kind = "outcome" /\ n.success /\ n.prUrl = "url"

AllowedEdges ==
  {<<"pending", "approved">>, <<"approved", "applied">>,
   <<"approved", "rejected">>, <<"pending", "rejected">>}

\* C1: every change of a proposal's status follows one of the edges
\* pending->approved, approved->applied, approved->rejected,
\* pending->rejected; applied and rejected are never left.
C1_OnlyLifecycleEdges ==
  [][\A i \in Ids :
       (status[i] # "none" /\ status'[i] # status[i])
         => <<status[i], status'[i]>> \in AllowedEdges]_vars

\* C2: an approveProposal call that passed the guard ends either with a
\* pull request, status applied and a success mail carrying the PR URL, or
\* with no pull request, status rejected and a failure mail with an empty
\* PR reference.
C2_TwoOutcomes ==
  [][\A c \in Calls :
       ApproveEnds(c) =>
         \/ /\ res'.pr
            /\ status'[c.id] = "applied"
            /\ SuccessNote(res'.note)
         \/ /\ ~res'.pr
            /\ status'[c.id] = "rejected"
            /\ FailureNote(res'.note)]_vars

\* C3: for every proposal at most one apply pipeline is ever started: no
\* second approveProposal passes the guard, neither while the first
\* pipeline runs nor after it ended.
C3_AtMostOnePipeline ==
  \A i \in Ids :
    /\ started[i] <= 1
    /\ BagCardinality([r \in ApproveCalls(i) |-> call[r]]) <= started[i]

\* C3 witness: an approval of a proposal whose pipeline is still running
\* was refused
C3_Witness ==
  \E i \in Ids :
    /\ started[i] = 1
    /\ status[i] = "approved"
    /\ ApproveCalls(i) # {}
    /\ res.op = "approve" /\ res.id = i /\ res.result = "InvalidState"

\* C4: two approveProposal calls for different proposals of the repository
\* are never both between the start of prepareRepository and the end of
\* validation.
C4_SerializedPerRepository ==
  \A c1, c2 \in Calls :
    (/\ c1.op = "approve" /\ c2.op = "approve"
     /\ c1.id # c2.id)
      => ~(c1.pc \in PipelinePcs /\ c2.pc \in PipelinePcs)

\* C5: a branch, a write, a commit, a push or a pull request is made for a
\* proposal only by an approveProposal call that found it pending; in
\* particular no step of an analysis makes one.
C5_EffectsOnlyAfterApproval ==
  [][\A i \in Ids :
       effects'[i] # effects[i] =>
         \E c \in Calls :
           /\ Left(c)
           /\ c.op = "approve"
           /\ c.id = i
           /\ c.seen = "pending"]_vars

\* C5 witness: a proposal that was stored by an analysis, approved while
\* pending, and whose branch was pushed
C5_Witness ==
  \E i \in Ids : started[i] = 1 /\ "push" \in effects[i]

\* C6: createPullRequest happens only in a call whose lint, build and test
\* all passed; a call with a failed stage ends without a pull request and
\* with the proposal rejected.
C6_PullRequestOnlyAfterValidation ==
  [][\A c \in Calls :
       /\ (\E r \in BagToSet(call') :
             Became(c, r) /\ c.op = "approve" /\ ~c.pr /\ r.pr)
            => (c.lint = "pass" /\ c.build = "pass" /\ c.test = "pass")
       /\ (ApproveEnds(c) /\ StageFailed(c))
            => (/\ ~res'.pr
                /\ "pr" \notin effects'[c.id]
                /\ status'[c.id] = "rejected")]_vars

\* C6 witness: a call whose validation failed has ended; its proposal is
\* rejected and has no pull request
C6_Witness ==
  /\ res.op = "approve" /\ res.result = "ok" /\ ~res.pr
  /\ FailureNote(res.note)
  /\ status[res.id] = "rejected"
  /\ "push" \in effects[res.id] /\ "pr" \notin effects[res.id]

FirstFailing(r) ==
  IF r.lint = "fail" THEN "lint"
  ELSE IF r.build = "fail" THEN "build"
  ELSE "test"

\* C7: the stages run in the order lint, build, test; build waits for a
\* passed lint and test for a passed build, a failed lint means build and
\* test never run, and runTests returns the first failing stage's result.
C7_StageOrder ==
  \A r \in Calls :
      /\ (r.pc = "build" \/ r.build # "none") => r.lint = "pass"
      /\ (r.pc = "test" \/ r.test # "none") => r.build = "pass"
      /\ r.lint = "fail" => (r.build = "none" /\ r.test = "none")
      /\ r.ret # "none" => r.ret = FirstFailing(r)
      /\ StageFailed(r) => r.ret # "none"

\* C7 witness: lint failed, runTests returned that result and the failure
\* mail is being sent; build and test were not run
C7_Witness ==
  \E c \in Calls :
    /\ c.pc = "failMail"
    /\ c.lint = "fail"
    /\ c.ret = "lint"

ApproveReceived(i) ==
  /\ requests' = requests + 1
  /\ \/ call' = call /\ res'.op = "approve" /\ res'.id = i /\ res'.http # 400
     \/ \E r \in BagToSet(call') :
          Began(r) /\ r.op = "approve" /\ r.id = i

Untouched ==
  /\ UNCHANGED <<proposals, status, effects, workingDir, started>>
  /\ call' = call
  /\ res'.note = NoNote

\* C8: approveProposal(id) fails with not-found when id is not stored and
\* with invalid-state when the stored proposal is not pending; store,
\* statuses, tree and tracker are untouched and no mail is sent.
C8_GuardFailuresHaveNoEffect ==
  [][\A i \in Ids :
       ApproveReceived(i) =>
         /\ i \notin proposals
              => (res'.result = "NotFound" /\ res'.http = 500 /\ Untouched)
         /\ (i \in proposals /\ status[i] # "pending")
              => (res'.result = "InvalidState" /\ res'.http = 500
                  /\ Untouched)]_vars

\* C8 witness: an approval of a stored proposal that had already been
\* rejected by its pipeline was refused with invalid-state
C8_Witness ==
  /\ res.op = "approve" /\ res.result = "InvalidState"
  /\ res.id \in proposals
  /\ status[res.id] = "rejected"

\* a tracker or git call of a pipeline step threw in this step of call c
CollaboratorThrew(c, r) ==
  /\ Became(c, r)
  /\ c.op = "approve"
  /\ \/ c.pc = "pull" /\ r.pc = "mkdir"
     \/ c.pc = "defaultBranch" /\ r.pc = "fallbackMain"
     \/ c.err = "none" /\ r.err # "none"

C10_SuccessOnlyWhenApplied ==
  [][\A c \in Calls :
       ApproveEnds(c) =>
         /\ res'.http = 200
              => (res'.pr /\ status'[c.id] = "applied")
         /\ (StageFailed(c) \/ c.err # "none")
              => res'.http = 500]_vars

\* ------------------------------------------- applyChanges (ApplySpec)
\* s occurs in t
Occurs(s, t) ==
  \E i \in 1..(Len(t) - Len(s) + 1) : SubSeq(t, i, i + Len(s) - 1) = s

\* the step takes change k from codeChanges
TakesChange == apply.pc = "loop" /\ apply'.k = apply.k + 1

Literal(content, change) ==
  IF change.originalCode = <<>> THEN change.newCode
  ELSE LET first == CHOOSE i \in 1..(Len(content) + 1) :
                      /\ SubSeq(content, i, i + Len(change.originalCode) - 1)
                           = change.originalCode
                      /\ \A j \in 1..(i - 1) :
                           SubSeq(content, j, j + Len(change.originalCode) - 1)
                             # change.originalCode
       IN SubSeq(content, 1, first - 1) \o change.newCode
          \o SubSeq(content, first + Len(change.originalCode), Len(content))

\* C12: every applied change writes newCode itself when originalCode is
\* empty, and otherwise the previous content with its first occurrence of
\* originalCode replaced by newCode taken literally, for every newCode.
C12_LiteralFirstReplacement ==
  [][(TakesChange /\ apply'.pc = "commit") =>
       LET change == apply'.change
           content == IF apply.files[change.filePath].exists
                        THEN apply.files[change.filePath].text
                        ELSE <<>>
       IN apply'.files[change.filePath] = File(Literal(content, change))]_vars

\* ------------------------------------------ analyzeIssue (LLMSpec)
\* C13: whatever the model answers, analyzeIssue returns a proposal only
\* with a numeric confidence of at least 70.
C13_ProposalConfidenceAtLeast70 ==
  (llm.pc = "returned" /\ llm.result.hasProposal)
    => /\ llm.result.proposal.confidence.type = "number"
       /\ llm.result.proposal.confidence.num >= 70

\* the JSON object lacks a field of the response format: shouldFix,
\* confidence and reason always, title, description and the codeChanges
\* array when shouldFix is true
LacksRequiredField(f) ==
  \/ "undefined" \in {f.shouldFix, f.confidence.type, f.reason}
  \/ /\ f.shouldFix = "true"
     /\ \/ "undefined" \in {f.title, f.description}
        \/ f.codeChanges # "array"

\* C14: analyzeIssue never throws; a failed request, a non-OK status, an
\* empty response, text that is no JSON and a JSON object lacking required
\* fields each give shouldFix=false, no proposal and a non-empty reason.
C14_FailuresDegradeToNoFix ==
  /\ llm.pc \in {"off", "callLLM", "content", "returned"}
  /\ (/\ llm.pc = "returned"
      /\ \/ llm.response.kind \in {"requestFailed", "notOK", "empty", "noJSON"}
         \/ /\ llm.response.kind = "object"
            /\ LacksRequiredField(llm.response.fields))
       => /\ ~llm.result.shouldFix
          /\ ~llm.result.hasProposal
          /\ llm.result.reason # ""

\* --------------------------------------------- analysis and rejection
\* C15: when the validation mail cannot be sent, the error reaches the
\* caller of analyzeSingleIssue and the store holds no proposal of that
\* analysis.
C15_MailFailureAbortsCreation ==
  [][\A c \in Calls :
       (c.pc = "validationMail" /\ Ended(c) /\ ~res'.note.delivered)
         => (res'.http = 500 /\ c.id \notin proposals')]_vars

\* C16: a transport failure of the outcome mail or of the no-fix notice
\* does not change what the calling operation returns: approveProposal ends
\* as it does with a delivered mail, and analyzeSingleIssue returns null, so
\* that /analyze answers 200.
C16_NoticeFailureIsOnlyLogged ==
  [][\A c \in Calls :
       (Ended(c) /\ ~res'.note.delivered)
         => /\ c.pc = "noFixMail" => (res'.http = 200 /\ res'.result = "null")
            /\ c.pc \in {"okMail", "failMail"}
                 => (res'.http = 200 /\ res'.result = "ok")
            /\ c.pc = "catchMail"
                 => (res'.http = 500 /\ res'.result = c.err)]_vars

\* the step belongs to an analysis
AnalysisStep(c) == c.op = "analyze" /\ Left(c)

\* C17: an analysis changes the store only by adding one pending proposal,
\* exactly when the generator proposed a fix, and then attempts the
\* validation mail for it; on a no-fix result the store is unchanged, the
\* no-fix notice with the generator's reason is attempted and the call
\* returns null.
C17_AnalysisFrame ==
  [][\A c \in Calls :
       AnalysisStep(c) =>
         /\ effects' = effects /\ workingDir' = workingDir
         /\ c.pc # "analyzing" => (proposals' = proposals /\ status' = status)
         /\ c.pc = "analyzing" =>
              \/ proposals' = proposals /\ status' = status
              \/ \E i \in Ids \ proposals, r \in BagToSet(call') :
                   /\ Became(c, r)
                   /\ r.pc = "validationMail" /\ r.id = i
                   /\ status[i] = "none"
                   /\ proposals' = proposals \cup {i}
                   /\ status' = [status EXCEPT ![i] = "pending"]
         /\ (c.pc = "validationMail" /\ Ended(c))
              => (res'.note.kind = "validate"
                  /\ res'.note.approveUrl.proposalId = c.id)
         /\ (c.pc = "noFixMail" /\ Ended(c))
              => (/\ res'.note.kind = "nofix"
                  /\ res'.note.reason = c.reason
                  /\ res'.result = "null")]_vars

RejectReceived(i) ==
  /\ requests' = requests + 1
  /\ res'.op = "reject" /\ res'.id = i

\* C18: rejectProposal(id) fails with not-found and changes nothing when id
\* is not stored; otherwise it sets the status to rejected and removes the
\* proposal, every other proposal staying as it is.  A removed proposal
\* never comes back, so a later rejectProposal(id) or approveProposal(id)
\* fails with not-found.
C18_RejectRemoves ==
  [][\A i \in Ids :
       /\ RejectReceived(i) =>
            IF i \notin proposals
              THEN res'.result = "NotFound" /\ res'.http = 500 /\ Untouched
              ELSE /\ res'.http = 200
                   /\ status'[i] = "rejected"
                   /\ proposals' = proposals \ {i}
                   /\ \A j \in Ids \ {i} : status'[j] = status[j]
                   /\ UNCHANGED <<effects, workingDir, started, call>>
       /\ (status[i] # "none" /\ i \notin proposals) => i \notin proposals'
       /\ (ApproveReceived(i) /\ status[i] # "none" /\ i \notin proposals)
            => res'.result = "NotFound"]_vars

\* C18 witness: a proposal was rejected and removed, and the second
\* rejectProposal for it failed with not-found
C18_Witness ==
  /\ res.op = "reject" /\ res.result = "NotFound"
  /\ status[res.id] = "rejected"
  /\ res.id \notin proposals

\* C19: the approve and reject links of a validation mail carry the
\* proposal id and the repository, so that a request made from a link
\* passes the input check of its route.
C19_MailLinksReachTheAgent ==
  res.note.kind = "validate"
    => /\ res.note.approveUrl.proposalId = res.id
       /\ res.note.rejectUrl.proposalId = res.id
       /\ repositoryUrl(FALSE, res.note.approveUrl.query)
       /\ repositoryUrl(FALSE, res.note.rejectUrl.query)

\* ------------------------------------------ scanAndAnalyze (ScanSpec)
\* C20: once the list of issues is fetched, scanAndAnalyze attempts the
\* analysis of every issue, in the order of the list; a failure on one
\* issue is logged, never prevents the following issues from being
\* attempted and never makes scanAndAnalyze fail.
C20_ScanAttemptsEveryIssue ==
  /\ scan.pc = "thrown" => (scan.err = "getIssues" /\ scan.attempted = <<>>)
  /\ scan.pc \in {"loop", "done"} =>
       /\ Len(scan.attempted) <= scan.issues
       /\ \A k \in 1..Len(scan.attempted) : scan.attempted[k] = k
       /\ scan.logged =
            {k \in 1..Len(scan.outcomes) : Throws(scan.outcomes[k])}
  /\ scan.pc = "done" => Len(scan.attempted) = scan.issues

\* C20 witness: the analysis of the first issue failed and was logged, the
\* following issues were attempted and the scan resolved
C20_Witness ==
  /\ scan.pc = "done"
  /\ scan.issues >= 2
  /\ 1 \in scan.logged
  /\ scan.attempted[scan.issues] = scan.issues

\* C21: a scan with a limit L analyzes at most L issues, whatever number
\* of open issues the tracker returns.
C21_ScanRespectsLimit ==
  scan.pc \in {"loop", "done"} /\ scan.analysisLimit > 0
    => Len(scan.attempted) <= scan.analysisLimit

\* ------------------------------ gatherRepositoryContext (ContextSpec)
\* the blocks of candidate files
SourceBlocks ==
  {j \in 1..Len(ctx.contextParts) : ctx.contextParts[j].tag = "source"}

HasContent(k) == getFileContent(ctx.repo, k).kind = "content"

\* the files that have a block with that tag
BlockPaths(tag) ==
  {ctx.contextParts[j].path :
     j \in {i \in 1..Len(ctx.contextParts) : ctx.contextParts[i].tag = tag}}

\* C24: gatherRepositoryContext never throws; a file whose fetch fails is
\* omitted and all other collected blocks are kept; a failure outside the
\* per-item handling (the root listing) gives 'Repository context
\* unavailable'.
C24_BestEffortAssembly ==
  /\ ctx.pc # "thrown"
  /\ ctx.pc = "returned" =>
       /\ ctx.result = (IF ctx.rootOk THEN "joined" ELSE Unavailable)
       /\ BlockPaths("config") = {k \in 1..8 : HasContent(k)}
       /\ ctx.rootOk =>
            /\ BlockPaths("source") =
                 {k \in 1..Min(ctx.filesToRead, 15) : HasContent(k)}
            /\ BlockPaths("structure") = {0}
  /\ \A i, j \in 1..Len(ctx.contextParts) :
       (i < j /\ ctx.contextParts[i].tag = ctx.contextParts[j].tag)
         => ctx.contextParts[i].path < ctx.contextParts[j].path

\* C24 witness: the fetch of a config file and of a candidate file failed
\* and the context was returned with the blocks of the other files
C24_Witness ==
  /\ ctx.pc = "returned" /\ ctx.result = "joined"
  /\ \E k \in 1..8 : getFileContent(ctx.repo, k).kind = "throws"
  /\ \E k \in 1..Min(ctx.filesToRead, 15) :
       /\ getFileContent(ctx.repo, k).kind = "throws"
       /\ \E j \in 1..Min(ctx.filesToRead, 15) :
            j > k /\ j \in BlockPaths("source")

\* ------------------------------- identifyRelevantFiles (FilesSpec)
\* the issue references an existing file with that path
Referenced(path) ==
  /\ includesPath(found.matches, path)
  /\ path \in RepoFiles(found.repo)

\* C23: the returned candidate list holds no path twice, and every
\* existing file that the issue references precedes every candidate that
\* the issue does not reference.
C23_ReferencedFilesFirst ==
  found.pc = "returned" =>
    /\ \A i, j \in DOMAIN found.files :
         i # j => found.files[i] # found.files[j]
    /\ \A path \in Mentionable :
         Referenced(path) =>
           \E j \in DOMAIN found.files :
             /\ found.files[j] = path
             /\ \A i \in 1..(j - 1) :
                  includesPath(found.matches, found.files[i])

\* C28: every source-extension file listed directly in an existing
\* conventional source directory is a candidate under its repository path.
C28_ProbedFilesKeepTheirPath ==
  found.pc = "returned" =>
    \A k \in DOMAIN sourceDirs :
      LET dirContent == getRepositoryContent(found.repo, sourceDirs[k])
      IN \A i \in DOMAIN dirContent.items :
           (dirContent.items[i].type = "file"
              /\ isSourceFile(dirContent.items[i].path))
             => includesPath(found.files, dirContent.items[i].path)

\* ------------------------------- TestRunnerService (RunnerSpec)
\* C27: for each of lint, build and test, a run passes exactly when no
\* command is detected, or the command exits with status zero and its
\* output holds no failure marker.
C27_FailureMarkersFailTheStage ==
  runner.pc = "returned" =>
    (runner.result.passed <=>
       \/ runner.exit = "none"
       \/ runner.exit = "zero" /\ ~somePatternMatches(runner.output))

\* ------------------------------------------------- the working tree
\* C25: the files written and the commits made in the working tree by an
\* approve call are never removed: no step of a failing pipeline, of the
\* rejection path or of a later prepareRepository takes them away.
C25_CommitsAreNeverRolledBack ==
  [][\A i \in Ids :
       (effects[i] \cap {"write", "commit"}) \subseteq effects'[i]]_vars

\* C25 witness: the pipeline of a proposal committed and then failed, and
\* the pipeline of another proposal has prepared the same working tree and
\* applies its changes on it
C25_Witness ==
  \E i \in Ids :
    /\ "commit" \in effects[i]
    /\ status[i] = "rejected"
    /\ ApproveCalls(i) = {}
    /\ \E c \in Calls :
         /\ c.op = "approve" /\ c.id # i
         /\ c.pc \in {"applyRead", "applyWrite", "applyCommit"}

\* C26: prepareRepository goes to 'git pull' exactly when the working
\* directory exists and to the clone otherwise; after 'git pull' it either
\* goes on or fails with the error of the pull, and never clones.
C26_CloneOnlyWhenAbsent ==
  [][\A c \in Calls :
       Left(c) =>
         /\ c.pc = "access" =>
              \E r \in BagToSet(call') :
                /\ Became(c, r)
                /\ r.pc = (IF workingDir THEN "pull" ELSE "mkdir")
         /\ c.pc = "pull" =>
              \E r \in BagToSet(call') :
                /\ Became(c, r)
                /\ \/ r.pc = "defaultBranch"
                   \/ r.pc = "catchMail" /\ r.err = "prepareRepository"]_vars

\* C30: once rejectProposal(id) has removed the proposal, no pull request
\* is created for it and its status is not set to applied.
C30_RejectedStaysRejected ==
  [][\A i \in Ids :
       (status[i] # "none" /\ i \notin proposals) =>
         /\ status'[i] = "applied" => status[i] = "applied"
         /\ "pr" \in effects'[i] => "pr" \in effects[i]]_vars

\* C29: an approveProposal call that passed the guard eventually returns
\* or throws, the status of its proposal is then applied or rejected, and
\* no proposal has the status approved while no approve call is in progress
\* for it.
C29_PipelineEnds ==
  /\ [][\A c \in Calls :
          ApproveEnds(c) => status'[c.id] \in {"applied", "rejected"}]_vars
  /\ [](\A i \in Ids : status[i] = "approved" => ApproveCalls(i) # {})
  /\ \A i \in Ids : (ApproveCalls(i) # {}) ~> (ApproveCalls(i) = {})

\* C29 witness: the approve call of a proposal has ended and left it
\* applied
C29_Witness ==
  /\ res.op = "approve" /\ res.http = 200 /\ res.id \in Ids
  /\ status[res.id] = "applied"
  /\ ApproveCalls(res.id) = {}

====
